---- MODULE Spec2Model ----
(***************************************************************************)
(* The logging facade of galleon: the process-wide LOGGER singleton, its   *)
(* registry of sinks keyed by sink kind, the severity filter and the       *)
(* startup / shutdown lifecycle.                                           *)
(*                                                                         *)
(* The repository holds the facade twice:                                  *)
(*   "common"  src/common/src/logger.rs  a tracing Layer behind a          *)
(*             reload::Layer<LevelFilter>; the registry and the reload     *)
(*             handle sit together behind one Mutex;                       *)
(*   "core"    src/core/src/logger.rs    a log::Log implementation; the    *)
(*             filter is the log crate's global atomic max level and only  *)
(*             the registry sits behind the Mutex.                         *)
(* The variable variant fixes which of the two a behaviour runs.           *)
(*                                                                         *)
(* Every facade call is cut into steps at the places where another thread  *)
(* can observe or change shared state: an atomic read or write, a lock     *)
(* acquisition, one call into a sink while the lock is held.               *)
(***************************************************************************)
EXTENDS Integers, Sequences, FiniteSets, TLC

(* LevelFilter, ordered by verbosity as tracing and log order it:          *)
(* OFF < ERROR < WARN < INFO < DEBUG < TRACE.                              *)
OFF == 0
ERROR == 1
INFO == 3
TRACE == 5

(* Bound: the number of facade calls made in one behaviour.                *)
MaxCalls == 5
(* Bound: the number of facade calls in a behaviour with two threads.      *)
MaxConcCalls == 4

Variants == {"common", "core"}
Threads == {"t1", "t2"}
(* The concrete sink types (TypeId) a program registers.                   *)
Kinds == {"A", "B"}
(* The levels the calls of a behaviour are drawn from.                     *)
StartLevels == {ERROR, TRACE}
FilterLevels == {OFF, ERROR, TRACE}
SinkLevels == {ERROR, TRACE}
EmitLevels == {ERROR, INFO}

VARIABLES
    variant,        \* which facade source the behaviour runs
    LOGGER,         \* the OnceLock: TRUE once get_or_init has stored a Logger
    reload_handle,  \* common: the filter the Logger's Handle points to (0: none)
    filters,        \* common: the reload filters created so far, [level, alive]
    installed,      \* the global default: common, the id of the filter of the
                    \* installed subscriber; core, 1 once set_logger succeeded; 0: none
    max_level,      \* core: the log crate's global max level
    sinks,          \* the registry HashMap<TypeId, Box<dyn Sink>>: kind -> instance, 0: absent
    insts,          \* every sink instance boxed by add_sink so far: [kind, max, fails]
    mutex,          \* the owner of the Logger's Mutex, or "free"
    poisoned,       \* the Mutex was unlocked by a panic
    pc,             \* each thread's position in its current call
    lvl,            \* the level of each thread's current record (emit)
    op,             \* each thread's current or last call: its name and argument
    todo,           \* each thread's not yet visited part of sinks.values()
    mine,           \* common: the filter a thread's startup call created
    ret,            \* the result of each thread's last returned call
    gate,           \* what the filter decided about each thread's current record
    seen,           \* the level that gated emits when the thread's current record was emitted
    snap,           \* the instances registered when the thread's loop took the lock
    asked,          \* the instances whose enabled the thread's current emit has called
    delivered,      \* log (emit) or flush (shutdown) calls of the thread's current call
    order,          \* the parts of shutdown the thread's current call has done
    logCalls,       \* log calls per instance, over the whole behaviour
    flushCalls,     \* flush calls per instance, over the whole behaviour
    removed,        \* the instances a remove_sink call has taken out of the registry
    shut,           \* a shutdown call that found the LOGGER has returned
    sent,           \* per thread and level, the records that passed the filter
    left,           \* the number of facade calls the behaviour may still make
    caller,         \* the thread that made the latest facade call
    event,          \* the tracing event in hand: its fields, level, file and line,
                    \* and the max level of the DebugConsoleSink it is offered to
    visitor,        \* the StringVisitor of on_event: msg, args, fields visited
    record,         \* the arguments on_event passes to Logger::log
    written,        \* what the DebugConsoleSink has put out for the record
    step            \* the position of the event on its way to the debug output

vars == <<variant, LOGGER, reload_handle, filters, installed, max_level, sinks,
          insts, mutex, poisoned, pc, lvl, op, todo, mine, ret, gate, seen, snap,
          asked, delivered, order, logCalls, flushCalls, removed, shut, sent, left,
          caller, event, visitor, record, written, step>>

(* The event on its way from the macro to the debug output.                *)
rec == <<event, visitor, record, written, step>>

shared == <<LOGGER, reload_handle, filters, installed, max_level, sinks, insts,
            mutex, poisoned>>
ghost == <<gate, snap, asked, delivered, order, logCalls, flushCalls, removed, shut,
           sent>>

Insts == 1..Len(insts)

(* The instances the registry holds.                                       *)
Registered == {sinks[k] : k \in {x \in Kinds : sinks[x] # 0}}

(* Sink::enabled of DebugConsoleSink: the sink's own max level is a level  *)
(* (not OFF) and the record's level is at most as verbose.                 *)
enabled(i, level) == insts[i].max # OFF /\ level <= insts[i].max

(* The severity filter: common, the level of the filter of the installed   *)
(* subscriber; core, log::max_level().                                     *)
Filter ==
    IF variant = "common"
    THEN IF installed = 0 THEN OFF ELSE filters[installed].level
    ELSE max_level

(* The level that gates an emit: without an installed subscriber (common)  *)
(* or logger (core) an event goes nowhere, as under OFF.                   *)
Gate == IF installed = 0 THEN OFF ELSE Filter

Start ==
    /\ variant \in Variants
    /\ LOGGER = FALSE
    /\ reload_handle = 0
    /\ filters = <<>>
    /\ installed = 0
    /\ max_level = OFF
    /\ sinks = [k \in Kinds |-> 0]
    /\ insts = <<>>
    /\ mutex = "free"
    /\ poisoned = FALSE
    /\ pc = [t \in Threads |-> "idle"]
    /\ lvl = [t \in Threads |-> OFF]
    /\ op = [t \in Threads |-> <<"none">>]
    /\ todo = [t \in Threads |-> {}]
    /\ mine = [t \in Threads |-> 0]
    /\ ret = [t \in Threads |-> "none"]
    /\ gate = [t \in Threads |-> "none"]
    /\ seen = [t \in Threads |-> OFF]
    /\ snap = [t \in Threads |-> {}]
    /\ asked = [t \in Threads |-> {}]
    /\ delivered = [t \in Threads |-> <<>>]
    /\ order = [t \in Threads |-> <<>>]
    /\ logCalls = <<>>
    /\ flushCalls = <<>>
    /\ removed = {}
    /\ shut = FALSE
    /\ sent = [t \in Threads |-> [L \in EmitLevels |-> 0]]
    /\ caller = "none"
    /\ written = "nothing"

(* No event is followed through the formatter.                             *)
NoEvent ==
    /\ event = "none"
    /\ visitor = "none"
    /\ record = "none"
    /\ step = "none"

Init == Start /\ NoEvent /\ left = MaxCalls

(* A thread starts the call o: it is between calls and the behaviour has   *)
(* calls left.                                                             *)
Call(t, o) ==
    /\ pc[t] = "idle"
    /\ left > 0
    /\ left' = left - 1
    /\ op' = [op EXCEPT ![t] = o]
    /\ caller' = t

(* The call returns r.                                                     *)
Return(t, r) == pc' = [pc EXCEPT ![t] = "idle"] /\ ret' = [ret EXCEPT ![t] = r]

(* A lock that never makes its caller wait.                                 *)
NeverWaits == ~poisoned

(* lock().unwrap() on a Mutex that is free and not poisoned.               *)
CanLock == mutex = "free" /\ ~poisoned
At(t, p) == pc' = [pc EXCEPT ![t] = p]

(***************************************************************************)
(* startup                                                                 *)
(***************************************************************************)

(* common startup, lines 208-209: reload::Layer::new(max_level) makes a    *)
(* fresh filter and its handle; LOGGER.get_or_init keeps the handle only   *)
(* when the LOGGER is still empty.                                         *)
startup_get_or_init(t, L) ==
    /\ variant = "common"
    /\ Call(t, <<"startup", L>>)
    /\ filters' = Append(filters, [level |-> L, alive |-> TRUE])
    /\ mine' = [mine EXCEPT ![t] = Len(filters) + 1]
    /\ IF LOGGER
       THEN UNCHANGED <<LOGGER, reload_handle>>
       ELSE LOGGER' = TRUE /\ reload_handle' = Len(filters) + 1
    /\ At(t, "set_global_default")
    /\ UNCHANGED <<rec, variant, seen, lvl, installed, max_level, sinks, insts,
                   mutex, poisoned, todo, ret, ghost>>

(* common startup, lines 210-216: set_global_default installs the          *)
(* subscriber built around the call's own filter, or fails when a global   *)
(* default exists; the subscriber of a failed call is dropped, and its     *)
(* filter with it.                                                         *)
startup_set_global_default(t) ==
    /\ pc[t] = "set_global_default"
    /\ IF installed = 0
       THEN /\ installed' = mine[t]
            /\ Return(t, "Ok")
            /\ UNCHANGED filters
       ELSE /\ filters' = [filters EXCEPT ![mine[t]] = [level |-> OFF, alive |-> FALSE]]
            /\ Return(t, "AlreadyInitialized")
            /\ UNCHANGED installed
    /\ UNCHANGED <<rec, variant, seen, op, LOGGER, reload_handle, max_level, sinks,
                   insts, mutex, poisoned, lvl, todo, mine, ghost, left,
                   caller>>

(* core startup, line 72: LOGGER.get_or_init(Logger::default).             *)
startup_core_get_or_init(t, L) ==
    /\ variant = "core"
    /\ Call(t, <<"startup", L>>)
    /\ LOGGER' = TRUE
    /\ At(t, "set_logger")
    /\ UNCHANGED <<rec, variant, seen, lvl, reload_handle, filters, installed,
                   max_level, sinks, insts, mutex, poisoned, todo, mine, ret,
                   ghost>>

(* A startup that applies its level before it knows whether set_logger     *)
(* succeeded.                                                              *)
startup_set_logger_eager(t) ==
    /\ pc[t] = "set_logger"
    /\ max_level' = op[t][2]
    /\ IF installed = 0
       THEN installed' = 1 /\ At(t, "set_level") /\ UNCHANGED ret
       ELSE Return(t, "AlreadyInitialized") /\ UNCHANGED installed
    /\ UNCHANGED <<rec, variant, seen, op, LOGGER, reload_handle, filters, sinks, insts,
                   mutex, poisoned, lvl, todo, mine, ghost, left, caller>>

(* core startup, line 73: log::set_logger(logger)? fails when a logger is  *)
(* installed.                                                              *)
startup_set_logger(t) ==
    /\ pc[t] = "set_logger"
    /\ IF installed = 0
       THEN installed' = 1 /\ At(t, "set_level") /\ UNCHANGED ret
       ELSE Return(t, "AlreadyInitialized") /\ UNCHANGED installed
    /\ UNCHANGED <<rec, variant, seen, op, LOGGER, reload_handle, filters, max_level,
                   sinks, insts, mutex, poisoned, lvl, todo, mine, ghost, left,
                   caller>>

(* core startup, lines 74-76: set_max_level(max_level); Ok(()).            *)
startup_set_max_level(t) ==
    /\ pc[t] = "set_level"
    /\ max_level' = op[t][2]
    /\ Return(t, "Ok")
    /\ UNCHANGED <<rec, variant, seen, op, LOGGER, reload_handle, filters, installed,
                   sinks, insts, mutex, poisoned, lvl, todo, mine, ghost, left,
                   caller>>

(***************************************************************************)
(* set_max_level, add_sink, remove_sink                                    *)
(***************************************************************************)

(* Handle::modify of the Logger's reload handle succeeds while the filter  *)
(* it points to is alive.                                                  *)
ModifyOk == filters[reload_handle].alive

(* common set_max_level, lines 239-243 and 49-55, when modify succeeds:    *)
(* nothing without a LOGGER; else, under the lock, the filter the handle   *)
(* points to takes the level.                                              *)
set_max_level(t, L) ==
    /\ variant = "common"
    /\ Call(t, <<"set_max_level", L>>)
    /\ IF ~LOGGER
       THEN UNCHANGED filters
       ELSE /\ CanLock
            /\ ModifyOk
            /\ filters' = [filters EXCEPT ![reload_handle].level = L]
    /\ Return(t, "unit")
    /\ UNCHANGED <<rec, variant, seen, lvl, LOGGER, reload_handle, installed,
                   max_level, sinks, insts, mutex, poisoned, todo, mine, ghost>>

(* core set_max_level, lines 99-101: log::set_max_level(level), whether or *)
(* not the LOGGER exists.                                                  *)
set_max_level_core(t, L) ==
    /\ variant = "core"
    /\ Call(t, <<"set_max_level", L>>)
    /\ max_level' = L
    /\ Return(t, "unit")
    /\ UNCHANGED <<rec, variant, seen, lvl, LOGGER, reload_handle, filters,
                   installed, sinks, insts, mutex, poisoned, todo, mine, ghost>>

(* An insert that keeps the entry a kind already has (entry().or_insert).  *)
insert_if_absent(k, i) == IF sinks[k] = 0 THEN [sinks EXCEPT ![k] = i] ELSE sinks

(* The registry after insert(TypeId::of::<S>(), Box::new(sink.clone())):   *)
(* the entry of kind k is the new instance i, whatever it was.             *)
insert(k, i) == [sinks EXCEPT ![k] = i]

(* add_sink, common lines 227-231 and 57-63, core 87-91 and 23-28: nothing *)
(* without a LOGGER; else, under the lock, a clone of the sink is boxed    *)
(* and put in the registry under the sink's kind.                          *)
add_sink(t, k, m, f) ==
    /\ Call(t, <<"add_sink", k>>)
    /\ IF ~LOGGER
       THEN UNCHANGED <<sinks, insts, logCalls, flushCalls>>
       ELSE /\ CanLock
            /\ insts' = Append(insts, [kind |-> k, max |-> m, fails |-> f])
            /\ sinks' = insert(k, Len(insts) + 1)
            /\ logCalls' = Append(logCalls, 0)
            /\ flushCalls' = Append(flushCalls, 0)
    /\ Return(t, "unit")
    /\ UNCHANGED <<rec, variant, seen, LOGGER, reload_handle, filters, installed,
                   max_level, mutex, poisoned, lvl, todo, mine, gate, snap,
                   asked, delivered, order, removed, shut, sent>>

(* A remove that takes nothing out.                                        *)
remove_none(k) == sinks

(* The registry after remove(&TypeId::of::<S>()).                          *)
remove(k) == [sinks EXCEPT ![k] = 0]

(* remove_sink, common lines 233-237 and 65-67, core 93-97 and 30-32.      *)
remove_sink(t, k) ==
    /\ Call(t, <<"remove_sink", k>>)
    /\ IF ~LOGGER
       THEN UNCHANGED <<sinks, removed>>
       ELSE /\ CanLock
            /\ sinks' = remove(k)
            /\ removed' = removed \cup ({sinks[k]} \ {0})
    /\ Return(t, "unit")
    /\ UNCHANGED <<rec, variant, seen, LOGGER, reload_handle, filters, installed,
                   max_level, insts, mutex, poisoned, lvl, todo, mine, gate,
                   snap, asked, delivered, order, logCalls, flushCalls, shut,
                   sent>>
(***************************************************************************)
(* emit: the event macros, Logger::on_event and Logger::log                *)
(***************************************************************************)

(* A thread's bookkeeping when it starts an emit or a shutdown.            *)
Fresh(t, g) ==
    /\ gate' = [gate EXCEPT ![t] = g]
    /\ snap' = [snap EXCEPT ![t] = {}]
    /\ asked' = [asked EXCEPT ![t] = {}]
    /\ delivered' = [delivered EXCEPT ![t] = <<>>]
    /\ order' = [order EXCEPT ![t] = <<>>]

(* A filter check that lets every level through.                           *)
passes_all(L) == TRUE

(* Whether a record of level L passes the filter: the level is at most as  *)
(* verbose as the filter (LevelFilter's enabled; core line 43).            *)
passes(L) == L <= Filter

(* common: info!/error! at the call site (win32 main.rs lines 40-49). The  *)
(* event reaches Logger::on_event only through an installed subscriber     *)
(* whose reload filter enables its level.                                  *)
emit(t, L) ==
    /\ variant = "common"
    /\ Call(t, <<"emit", L>>)
    /\ lvl' = [lvl EXCEPT ![t] = L]
    /\ seen' = [seen EXCEPT ![t] = Gate]
    /\ IF installed # 0 /\ passes(L)
       THEN /\ Fresh(t, "pass")
            /\ sent' = [sent EXCEPT ![t][L] = @ + 1]
            /\ At(t, "log")
            /\ UNCHANGED ret
       ELSE Fresh(t, "discard") /\ Return(t, "unit") /\ UNCHANGED sent
    /\ UNCHANGED <<rec, variant, shared, todo, mine, logCalls, flushCalls, removed,
                   shut>>

(* core: the log macros compare the level with log::max_level() and hand   *)
(* the record to the installed logger (the no-op logger before set_logger).*)
emit_core(t, L) ==
    /\ variant = "core"
    /\ Call(t, <<"emit", L>>)
    /\ lvl' = [lvl EXCEPT ![t] = L]
    /\ seen' = [seen EXCEPT ![t] = Gate]
    /\ IF installed # 0 /\ passes(L)
       THEN Fresh(t, "macro") /\ At(t, "enabled") /\ UNCHANGED ret
       ELSE Fresh(t, "discard") /\ Return(t, "unit")
    /\ UNCHANGED <<rec, variant, shared, todo, mine, logCalls, flushCalls, removed,
                   shut, sent>>

(* core Logger::log line 47: self.enabled(record.metadata()) reads         *)
(* log::max_level() again.                                                 *)
Logger_enabled(t) ==
    /\ pc[t] = "enabled"
    /\ IF passes(lvl[t])
       THEN /\ gate' = [gate EXCEPT ![t] = "pass"]
            /\ sent' = [sent EXCEPT ![t][lvl[t]] = @ + 1]
            /\ At(t, "log")
            /\ UNCHANGED ret
       ELSE /\ gate' = [gate EXCEPT ![t] = "discard"]
            /\ Return(t, "unit")
            /\ UNCHANGED sent
    /\ UNCHANGED <<rec, variant, seen, op, shared, lvl, todo, mine, snap, asked,
                   delivered, order, logCalls, flushCalls, removed, shut, left,
                   caller>>

(* A Logger::log that gives the record up when the Mutex is taken          *)
(* (try_lock) instead of waiting for it.                                   *)
log_try_lock(t) ==
    /\ pc[t] = "log"
    /\ ~poisoned
    /\ IF mutex = "free"
       THEN /\ mutex' = t
            /\ todo' = [todo EXCEPT ![t] = Registered]
            /\ snap' = [snap EXCEPT ![t] = Registered]
            /\ delivered' = [delivered EXCEPT ![t] = [i \in Registered |-> 0]]
            /\ At(t, "dispatch")
            /\ UNCHANGED ret
       ELSE /\ Return(t, "unit")
            /\ UNCHANGED <<mutex, todo, snap, delivered>>
    /\ UNCHANGED <<rec, variant, seen, op, LOGGER, reload_handle, filters, installed,
                   max_level, sinks, insts, poisoned, lvl, mine, gate, asked,
                   order, logCalls, flushCalls, removed, shut, sent, left,
                   caller>>

(* Logger::log, common line 77, core line 48: self.inner.lock().unwrap()   *)
(* and the start of the iteration over sinks.values().                     *)
log_lock(t) ==
    /\ pc[t] = "log"
    /\ CanLock
    /\ mutex' = t
    /\ todo' = [todo EXCEPT ![t] = Registered]
    /\ snap' = [snap EXCEPT ![t] = Registered]
    /\ delivered' = [delivered EXCEPT ![t] = [i \in Registered |-> 0]]
    /\ At(t, "dispatch")
    /\ UNCHANGED <<rec, variant, seen, op, LOGGER, reload_handle, filters, installed,
                   max_level, sinks, insts, poisoned, lvl, mine, ret, gate,
                   asked, order, logCalls, flushCalls, removed, shut, sent,
                   left, caller>>

(* A loop body that calls sink.log without asking sink.enabled.            *)
logs_any(i, level) == TRUE

(* Whether the loop body calls sink.log for instance i: common lines       *)
(* 78-80, core lines 49-51.                                                *)
logs(i, level) == enabled(i, level)

(* One turn of the loop: sink.enabled, then sink.log when it answered yes. *)
log_sink(t, i) ==
    /\ pc[t] = "dispatch"
    /\ i \in todo[t]
    /\ ~(logs(i, lvl[t]) /\ insts[i].fails = "log")
    /\ asked' = [asked EXCEPT ![t] = @ \cup {i}]
    /\ IF logs(i, lvl[t])
       THEN /\ delivered' = [delivered EXCEPT ![t][i] = @ + 1]
            /\ logCalls' = [logCalls EXCEPT ![i] = @ + 1]
       ELSE UNCHANGED <<delivered, logCalls>>
    /\ todo' = [todo EXCEPT ![t] = @ \ {i}]
    /\ UNCHANGED <<rec, variant, seen, op, shared, pc, lvl, mine, ret, gate, snap,
                   order, flushCalls, removed, shut, sent, left, caller>>

(* A log that hands the record over and returns to the emitting thread     *)
(* before the loop over the sinks is done.                                 *)
log_unlock_early(t) ==
    /\ pc[t] = "dispatch"
    /\ mutex' = "free"
    /\ Return(t, "unit")
    /\ UNCHANGED <<rec, variant, seen, op, LOGGER, reload_handle, filters, installed,
                   max_level, sinks, insts, poisoned, lvl, todo, mine, ghost,
                   left, caller>>

(* The iteration is over: the guard is dropped and the emit returns.       *)
log_unlock(t) ==
    /\ pc[t] = "dispatch"
    /\ todo[t] = {}
    /\ mutex' = "free"
    /\ Return(t, "unit")
    /\ UNCHANGED <<rec, variant, seen, op, LOGGER, reload_handle, filters, installed,
                   max_level, sinks, insts, poisoned, lvl, todo, mine, ghost,
                   left, caller>>

(***************************************************************************)
(* shutdown                                                                *)
(***************************************************************************)

Did(t, what) == order' = [order EXCEPT ![t] = Append(@, what)]

(* common shutdown, line 220: if let Some(logger) = LOGGER.get().          *)
shutdown(t) ==
    /\ variant = "common"
    /\ Call(t, <<"shutdown">>)
    /\ Fresh(t, "none")
    /\ IF LOGGER
       THEN At(t, "flush") /\ UNCHANGED ret
       ELSE Return(t, "unit")
    /\ UNCHANGED <<rec, variant, seen, shared, lvl, todo, mine, logCalls, flushCalls,
                   removed, shut, sent>>

(* core shutdown, lines 80-81: with a LOGGER, log::set_max_level(Off)      *)
(* comes first.                                                            *)
shutdown_core(t) ==
    /\ variant = "core"
    /\ Call(t, <<"shutdown">>)
    /\ gate' = [gate EXCEPT ![t] = "none"]
    /\ snap' = [snap EXCEPT ![t] = {}]
    /\ asked' = [asked EXCEPT ![t] = {}]
    /\ delivered' = [delivered EXCEPT ![t] = <<>>]
    /\ IF LOGGER
       THEN /\ max_level' = OFF
            /\ order' = [order EXCEPT ![t] = <<"off">>]
            /\ At(t, "flush")
            /\ UNCHANGED ret
       ELSE /\ order' = [order EXCEPT ![t] = <<>>]
            /\ Return(t, "unit")
            /\ UNCHANGED max_level
    /\ UNCHANGED <<rec, variant, seen, LOGGER, reload_handle, filters, installed,
                   sinks, insts, mutex, poisoned, lvl, todo, mine, logCalls,
                   flushCalls, removed, shut, sent>>

(* Logger::flush, common line 91, core line 57: the lock and the start of  *)
(* the iteration.                                                          *)
flush_lock(t) ==
    /\ pc[t] = "flush"
    /\ CanLock
    /\ mutex' = t
    /\ todo' = [todo EXCEPT ![t] = Registered]
    /\ snap' = [snap EXCEPT ![t] = Registered]
    /\ delivered' = [delivered EXCEPT ![t] = [i \in Registered |-> 0]]
    /\ At(t, "flushing")
    /\ UNCHANGED <<rec, variant, seen, op, LOGGER, reload_handle, filters, installed,
                   max_level, sinks, insts, poisoned, lvl, mine, ret, gate,
                   asked, order, logCalls, flushCalls, removed, shut, sent,
                   left, caller>>

(* One turn of the loop: sink.flush().                                     *)
flush_sink(t, i) ==
    /\ pc[t] = "flushing"
    /\ i \in todo[t]
    /\ insts[i].fails # "flush"
    /\ delivered' = [delivered EXCEPT ![t][i] = @ + 1]
    /\ flushCalls' = [flushCalls EXCEPT ![i] = @ + 1]
    /\ todo' = [todo EXCEPT ![t] = @ \ {i}]
    /\ UNCHANGED <<rec, variant, seen, op, shared, pc, lvl, mine, ret, gate, snap,
                   asked, order, logCalls, removed, shut, sent, left, caller>>

flush_unlock(t) ==
    /\ pc[t] = "flushing"
    /\ todo[t] = {}
    /\ mutex' = "free"
    /\ Did(t, "flush")
    /\ At(t, "clear")
    /\ UNCHANGED <<rec, variant, seen, op, LOGGER, reload_handle, filters, installed,
                   max_level, sinks, insts, poisoned, lvl, todo, mine, ret,
                   gate, snap, asked, delivered, logCalls, flushCalls, removed,
                   shut, sent, left, caller>>

(* A clear that leaves the registry as it is.                              *)
kept == sinks

(* The registry after sinks.clear().                                       *)
cleared == [k \in Kinds |-> 0]

(* Logger::clear, common lines 84-88, core lines 34-38. In core it ends    *)
(* shutdown; in common set_max_level(LevelFilter::OFF) follows.            *)
clear(t) ==
    /\ pc[t] = "clear"
    /\ CanLock
    /\ sinks' = cleared
    /\ Did(t, "clear")
    /\ IF variant = "common"
       THEN At(t, "off") /\ UNCHANGED <<ret, shut>>
       ELSE Return(t, "unit") /\ shut' = TRUE
    /\ UNCHANGED <<rec, variant, seen, op, LOGGER, reload_handle, filters, installed,
                   max_level, insts, mutex, poisoned, lvl, todo, mine, gate,
                   snap, asked, delivered, logCalls, flushCalls, removed, sent,
                   left, caller>>

(* common shutdown, line 223: logger.set_max_level(LevelFilter::OFF), when *)
(* modify succeeds.                                                        *)
shutdown_off(t) ==
    /\ pc[t] = "off"
    /\ CanLock
    /\ ModifyOk
    /\ filters' = [filters EXCEPT ![reload_handle].level = OFF]
    /\ Did(t, "off")
    /\ Return(t, "unit")
    /\ shut' = TRUE
    /\ UNCHANGED <<rec, variant, seen, op, LOGGER, reload_handle, installed,
                   max_level, sinks, insts, mutex, poisoned, lvl, todo, mine,
                   gate, snap, asked, delivered, logCalls, flushCalls, removed,
                   sent, left, caller>>

(***************************************************************************)
(* set_max_level when Handle::modify fails                                 *)
(***************************************************************************)

(* Logger::log locks the Mutex its own thread holds. std leaves the        *)
(* outcome open: the second lock() never returns, by a deadlock or by a    *)
(* panic. A deadlocked thread keeps the Mutex for good; a panic unwinds    *)
(* through set_max_level, whose guard is dropped while panicking.          *)
Relocks == {"deadlock", "panic"}

relock(t, how) ==
    IF how = "deadlock"
    THEN mutex' = t /\ At(t, "deadlock") /\ UNCHANGED <<ret, poisoned>>
    ELSE mutex' = "free" /\ poisoned' = TRUE /\ Return(t, "panic")

(* common lines 50-53 when modify returns Err (the filter the handle       *)
(* points to was dropped): error!(..) runs inside the if let, while the    *)
(* guard of self.inner.lock() is alive. When the installed filter enables  *)
(* ERROR the event reaches Logger::on_event and Logger::log, which locks   *)
(* the Mutex again.                                                        *)
set_max_level_gone(t, L, how) ==
    /\ variant = "common"
    /\ Call(t, <<"set_max_level", L>>)
    /\ LOGGER
    /\ CanLock
    /\ ~ModifyOk
    /\ IF installed # 0 /\ passes(ERROR)
       THEN relock(t, how)
       ELSE Return(t, "unit") /\ UNCHANGED <<mutex, poisoned>>
    /\ UNCHANGED <<rec, variant, seen, lvl, LOGGER, reload_handle, filters,
                   installed, max_level, sinks, insts, todo, mine, ghost>>

(* The same inside shutdown, line 223.                                     *)
shutdown_off_gone(t, how) ==
    /\ pc[t] = "off"
    /\ CanLock
    /\ ~ModifyOk
    /\ IF installed # 0 /\ passes(ERROR)
       THEN relock(t, how) /\ UNCHANGED <<shut, order>>
       ELSE /\ Return(t, "unit") /\ shut' = TRUE /\ Did(t, "off failed")
            /\ UNCHANGED <<mutex, poisoned>>
    /\ UNCHANGED <<rec, variant, seen, op, LOGGER, reload_handle, filters, installed,
                   max_level, sinks, insts, lvl, todo, mine, gate, snap, asked,
                   delivered, logCalls, flushCalls, removed, sent, left,
                   caller>>

(***************************************************************************)
(* A sink that panics                                                      *)
(***************************************************************************)

(* sink.log panics inside the loop of Logger::log: nothing catches the     *)
(* unwind, the guard is dropped while panicking (the Mutex is poisoned)    *)
(* and the panic leaves the emit.                                          *)
log_sink_panic(t, i) ==
    /\ pc[t] = "dispatch"
    /\ i \in todo[t]
    /\ logs(i, lvl[t]) /\ insts[i].fails = "log"
    /\ asked' = [asked EXCEPT ![t] = @ \cup {i}]
    /\ mutex' = "free"
    /\ poisoned' = TRUE
    /\ Return(t, "panic")
    /\ UNCHANGED <<rec, variant, seen, op, LOGGER, reload_handle, filters, installed,
                   max_level, sinks, insts, lvl, todo, mine, gate, snap,
                   delivered, order, logCalls, flushCalls, removed, shut, sent,
                   left, caller>>

(* sink.flush panics inside the loop of Logger::flush.                     *)
flush_sink_panic(t, i) ==
    /\ pc[t] = "flushing"
    /\ i \in todo[t]
    /\ insts[i].fails = "flush"
    /\ mutex' = "free"
    /\ poisoned' = TRUE
    /\ Return(t, "panic")
    /\ UNCHANGED <<rec, variant, seen, op, LOGGER, reload_handle, filters, installed,
                   max_level, sinks, insts, lvl, todo, mine, ghost, left,
                   caller>>

(* lock().unwrap() on the poisoned Mutex panics: add_sink, remove_sink and *)
(* the common set_max_level lock first thing.                              *)
call_poisoned(t) ==
    /\ Call(t, <<"locking call">>)
    /\ LOGGER
    /\ poisoned
    /\ Return(t, "panic")
    /\ UNCHANGED <<rec, variant, seen, shared, lvl, todo, mine, ghost>>

(* The same for the lock of Logger::log, flush and clear and of the        *)
(* set_max_level inside shutdown.                                          *)
lock_poisoned(t) ==
    /\ pc[t] \in {"log", "flush", "clear", "off"}
    /\ poisoned
    /\ Return(t, "panic")
    /\ UNCHANGED <<rec, variant, seen, op, shared, lvl, todo, mine, ghost, left, caller>>

(***************************************************************************)
(* The facade used from one thread.                                        *)
(***************************************************************************)

Step(t) ==
    \/ \E L \in StartLevels : startup_get_or_init(t, L)
    \/ startup_set_global_default(t)
    \/ \E L \in StartLevels : startup_core_get_or_init(t, L)
    \/ startup_set_logger(t)
    \/ startup_set_max_level(t)
    \/ \E L \in FilterLevels : set_max_level(t, L)
    \/ \E L \in FilterLevels : set_max_level_core(t, L)
    \/ \E k \in Kinds, m \in SinkLevels : add_sink(t, k, m, "never")
    \/ \E k \in Kinds : remove_sink(t, k)
    \/ \E L \in EmitLevels : emit(t, L)
    \/ \E L \in EmitLevels : emit_core(t, L)
    \/ Logger_enabled(t)
    \/ log_lock(t)
    \/ \E i \in Insts : log_sink(t, i)
    \/ log_unlock(t)
    \/ shutdown(t)
    \/ shutdown_core(t)
    \/ flush_lock(t)
    \/ \E i \in Insts : flush_sink(t, i)
    \/ flush_unlock(t)
    \/ clear(t)
    \/ shutdown_off(t)

Next == Step("t1")

Spec == Init /\ [][Next]_vars

(***************************************************************************)
(* The facade used from two threads at once.                               *)
(***************************************************************************)

InitConc == Start /\ NoEvent /\ left = MaxConcCalls

(* The levels the calls of two threads are drawn from: the facade starts   *)
(* at TRACE, as in win32 main.rs line 23, and the filter is lowered.       *)
ConcFilterLevels == {OFF, ERROR}

NextConc ==
    \E t \in Threads :
        \/ startup_get_or_init(t, TRACE)
        \/ startup_set_global_default(t)
        \/ startup_core_get_or_init(t, TRACE)
        \/ startup_set_logger(t)
        \/ startup_set_max_level(t)
        \/ \E L \in ConcFilterLevels : set_max_level(t, L)
        \/ \E L \in ConcFilterLevels : set_max_level_core(t, L)
        \/ \E k \in Kinds : add_sink(t, k, TRACE, "never")
        \/ \E k \in Kinds : remove_sink(t, k)
        \/ \E L \in EmitLevels : emit(t, L)
        \/ \E L \in EmitLevels : emit_core(t, L)
        \/ Logger_enabled(t)
        \/ log_lock(t)
        \/ \E i \in Insts : log_sink(t, i)
        \/ log_unlock(t)
        \/ shutdown(t)
        \/ shutdown_core(t)
        \/ flush_lock(t)
        \/ \E i \in Insts : flush_sink(t, i)
        \/ flush_unlock(t)
        \/ clear(t)
        \/ shutdown_off(t)
        \/ \E L \in ConcFilterLevels, how \in Relocks : set_max_level_gone(t, L, how)
        \/ \E how \in Relocks : shutdown_off_gone(t, how)
        \/ call_poisoned(t)
        \/ lock_poisoned(t)

SpecConc == InitConc /\ [][NextConc]_vars

(***************************************************************************)
(* The facade used from one thread, with sinks that panic in log or flush. *)
(***************************************************************************)

Fails == {"never", "log", "flush"}

NextFault ==
    \/ Step("t1")
    \/ \E k \in Kinds, m \in SinkLevels, f \in Fails \ {"never"} : add_sink("t1", k, m, f)
    \/ \E i \in Insts : log_sink_panic("t1", i)
    \/ \E i \in Insts : flush_sink_panic("t1", i)
    \/ call_poisoned("t1")
    \/ lock_poisoned("t1")

SpecFault == Init /\ [][NextFault]_vars
(***************************************************************************)
(* The stress test: one thread starts the facade once and registers sinks  *)
(* of distinct kinds, then the threads emit records that pass the filter,  *)
(* at most MaxPerThread each, while nothing else is called.                *)
(***************************************************************************)

(* Bound: the facade calls of a stress behaviour.                          *)
MaxStressCalls == 7
(* Bound: the records one thread emits in a stress behaviour.              *)
MaxPerThread == 2

InitStress == Start /\ NoEvent /\ left = MaxStressCalls

Sent(t) == sent[t][ERROR] + sent[t][INFO]
NoEmitYet == \A t \in Threads : gate[t] = "none"
MayEmit(t, L) == installed # 0 /\ passes(L) /\ Sent(t) < MaxPerThread

NextStress ==
    \/ /\ NoEmitYet
       /\ \/ \E L \in StartLevels : ~LOGGER /\ startup_get_or_init("t1", L)
          \/ startup_set_global_default("t1")
          \/ \E L \in StartLevels : ~LOGGER /\ startup_core_get_or_init("t1", L)
          \/ startup_set_logger("t1")
          \/ startup_set_max_level("t1")
          \/ \E k \in Kinds, m \in SinkLevels :
                LOGGER /\ sinks[k] = 0 /\ add_sink("t1", k, m, "never")
    \/ \E t \in Threads :
          \/ \E L \in EmitLevels : MayEmit(t, L) /\ emit(t, L)
          \/ \E L \in EmitLevels : MayEmit(t, L) /\ emit_core(t, L)
          \/ Logger_enabled(t)
          \/ log_lock(t)
          \/ \E i \in Insts : log_sink(t, i)
          \/ log_unlock(t)

SpecStress == InitStress /\ [][NextStress]_vars

(***************************************************************************)
(* One event followed from the macro to the debug output: the fields are   *)
(* visited by the StringVisitor, on_event hands msg and args to            *)
(* Logger::log, and a DebugConsoleSink that is enabled for the level       *)
(* writes the record out.                                                  *)
(*                                                                         *)
(* A text is a sequence of tokens; an Option is a sequence of at most one  *)
(* element.                                                                *)
(***************************************************************************)

(* Bound: the fields of an event.                                          *)
MaxFields == 2

None == <<>>
Some(x) == <<x>>
NUL == "NUL"

(* The field values of an event: an integer (record_i64), strings          *)
(* (record_str, or record_debug under the ? sigil; one is empty, one holds *)
(* a NUL character) and the fmt::Arguments of a message (record_debug).    *)
Values ==
    { [ty |-> "i64", text |-> <<"3">>, via |-> "display"],
      [ty |-> "str", text |-> <<>>, via |-> "display"],
      [ty |-> "str", text |-> <<"a", " ", "b">>, via |-> "debug"],
      [ty |-> "str", text |-> <<"a", NUL>>, via |-> "display"],
      [ty |-> "fmt", text |-> <<"Test", " ", "message">>, via |-> "debug"] }
FieldNames == {"message", "milk", "n"}
Fields == [name : FieldNames, value : Values]
Files == {None, Some(<<"main.rs">>)}
Lines == {None, Some(42)}

(* The text "{}" and "{:?}" give for a value: only a string's differ.      *)
Display(v) == v.text
Debug(v) == IF v.ty = "str" THEN <<"\"">> \o v.text \o <<"\"">> ELSE v.text

(* A visitor that puts a space in front of every token.                    *)
separator_always(args) == <<" ">>

(* StringVisitor lines 135-137 and 184-186: a space unless args is empty.  *)
separator(args) == IF args = <<>> THEN <<>> ELSE <<" ">>

(* StringVisitor::record_display, lines 131-140.                           *)
record_display(v, f) ==
    IF f.name = "message"
    THEN [v EXCEPT !.msg = @ \o Display(f.value)]
    ELSE [v EXCEPT !.args = @ \o separator(@) \o <<f.name, "=">> \o Display(f.value)]

(* StringVisitor::record_debug, lines 180-189.                             *)
record_debug(v, f) ==
    IF f.name = "message"
    THEN [v EXCEPT !.msg = @ \o Debug(f.value)]
    ELSE [v EXCEPT !.args = @ \o separator(@) \o <<f.name, "=">> \o Debug(f.value)]

(* The text of a Level and of a u32.                                       *)
LevelName(L) == IF L = ERROR THEN "ERROR" ELSE IF L = INFO THEN "INFO" ELSE "TRACE"
RECURSIVE Digits(_)
Digits(n) == IF n < 10 THEN <<ToString(n)>> ELSE Digits(n \div 10) \o <<ToString(n % 10)>>

(* wstr!: the formatted text in UTF-16 with a terminating 0.               *)
wstr(text) == text \o <<NUL>>

(* OutputDebugStringW reads the buffer up to the first 0.                  *)
output_debug_string(s) ==
    LET n == CHOOSE i \in 1..Len(s) : s[i] = NUL /\ \A j \in 1..(i - 1) : s[j] # NUL
    IN  SubSeq(s, 1, n - 1)

(* DebugConsoleSink::enabled, win32 logger.rs lines 31-33: into_level() is *)
(* None for OFF; else the level is at most as verbose as the max level.    *)
DebugConsoleSink_enabled(max, level) == max # OFF /\ level <= max

(* DebugConsoleSink::log, win32 logger.rs lines 43-54: the match over      *)
(* (args, file, line) and the call of output_debug_string.                 *)
DebugConsoleSink_log(r) ==
    LET head == <<"[", LevelName(r.level), "]", "[">>
        temp ==
            IF r.args # None /\ r.file # None /\ r.line # None
            THEN wstr(head \o r.file[1] \o <<":">> \o Digits(r.line[1]) \o <<"]", " ">>
                      \o r.msg \o <<" ">> \o r.args[1] \o <<"\n">>)
            ELSE IF r.args = None /\ r.file # None /\ r.line # None
            THEN wstr(head \o r.file[1] \o <<":">> \o Digits(r.line[1]) \o <<"]", " ">>
                      \o r.msg \o <<"\n">>)
            ELSE IF r.args # None /\ r.file = None /\ r.line = None
            THEN wstr(head \o <<"unknown", ":", "unknown", "]", " ">>
                      \o r.msg \o <<" ">> \o r.args[1] \o <<"\n">>)
            ELSE wstr(head \o <<"unknown", ":", "unknown", "]", " ">> \o r.msg \o <<"\n">>)
    IN  output_debug_string(temp)

(* The facade's own variables, which the event's way does not touch.       *)
facade == <<variant, shared, pc, lvl, op, todo, mine, ret, seen, ghost, left, caller>>

(* An event with at most MaxFields fields reaches on_event, which starts   *)
(* with StringVisitor::default().                                          *)
InitRecord ==
    /\ Start
    /\ variant = "common"
    /\ left = 0
    /\ event \in [fields : UNION {[1..n -> Fields] : n \in 0..MaxFields},
                  level : EmitLevels, file : Files, line : Lines,
                  max : {OFF} \cup SinkLevels]
    /\ visitor = [msg |-> <<>>, args |-> <<>>, n |-> 0]
    /\ record = "none"
    /\ step = "record"

(* event.record(&mut visitor), line 107: the next field is handed to the   *)
(* Visit method of its type.                                               *)
event_record ==
    /\ step = "record"
    /\ visitor.n < Len(event.fields)
    /\ LET f == event.fields[visitor.n + 1]
           v == IF f.value.via = "debug"
                THEN record_debug(visitor, f)
                ELSE record_display(visitor, f)
       IN  visitor' = [v EXCEPT !.n = @ + 1]
    /\ UNCHANGED <<facade, event, record, written, step>>

(* on_event, lines 109-120: args is None when the visitor's args is empty. *)
on_event ==
    /\ step = "record"
    /\ visitor.n = Len(event.fields)
    /\ record' = [level |-> event.level,
                  msg |-> visitor.msg,
                  args |-> IF visitor.args = <<>> THEN None ELSE Some(visitor.args),
                  file |-> event.file,
                  line |-> event.line]
    /\ step' = "log"
    /\ UNCHANGED <<facade, event, visitor, written>>

(* Logger::log line 78: sink.enabled(level).                               *)
sink_enabled ==
    /\ step = "log"
    /\ step' = IF DebugConsoleSink_enabled(event.max, record.level) THEN "sink" ELSE "done"
    /\ UNCHANGED <<facade, event, visitor, record, written>>

(* Logger::log line 79: sink.log(level, msg, args, file, line).            *)
sink_log ==
    /\ step = "sink"
    /\ written' = DebugConsoleSink_log(record)
    /\ step' = "done"
    /\ UNCHANGED <<facade, event, visitor, record>>

NextRecord == event_record \/ on_event \/ sink_enabled \/ sink_log

SpecRecord == InitRecord /\ [][NextRecord]_vars

(***************************************************************************)
(* Properties                                                              *)
(***************************************************************************)

(* The number of log calls the loop owes instance i for a record of level  *)
(* L.                                                                      *)
Due(i, L) == IF enabled(i, L) THEN 1 ELSE 0

(* C1: exactly-once delivery. While the dispatch loop of an emit that      *)
(* passed the filter runs, the sinks it iterates are the registered ones,  *)
(* a visited sink has had log called once if its enabled answers yes for   *)
(* the record's level and not at all otherwise, an unvisited one not yet;  *)
(* and when the emit has returned, every sink that was registered has had  *)
(* log called exactly once (enabled) or zero times (not enabled) for that  *)
(* record.                                                                 *)
C1_ExactlyOnce ==
    \A t \in Threads :
        /\ pc[t] = "dispatch" =>
              /\ snap[t] = Registered
              /\ \A i \in snap[t] :
                    delivered[t][i] = IF i \in todo[t] THEN 0 ELSE Due(i, lvl[t])
        /\ (pc[t] = "idle" /\ gate[t] = "pass") =>
              /\ DOMAIN delivered[t] = snap[t]
              /\ \A i \in snap[t] : delivered[t][i] = Due(i, lvl[t])

(* C1 witness: the second record of a thread has been dispatched to two    *)
(* registered sinks of distinct kinds, one enabled for it (one log call)   *)
(* and one not (none).                                                     *)
C1_Witness ==
    /\ pc["t1"] = "idle" /\ gate["t1"] = "pass"
    /\ sent["t1"][ERROR] + sent["t1"][INFO] >= 2
    /\ snap["t1"] = Registered
    /\ \E i, j \in snap["t1"] :
          /\ insts[i].kind # insts[j].kind
          /\ enabled(i, lvl["t1"]) /\ delivered["t1"][i] = 1
          /\ ~enabled(j, lvl["t1"]) /\ delivered["t1"][j] = 0
(* The log calls a sink is owed by the records the threads have sent.      *)
Owed(i) ==
    Due(i, ERROR) * (sent["t1"][ERROR] + sent["t2"][ERROR])
    + Due(i, INFO) * (sent["t1"][INFO] + sent["t2"][INFO])

(* C2: concurrent stress. With the sinks registered beforehand and no      *)
(* registry or filter change while the threads emit, once every emit has   *)
(* returned each registered sink has had log called once for every record  *)
(* it is enabled for, whatever the interleaving was: with T threads that   *)
(* sent K records each, T*K calls on a sink enabled for all of them.       *)
C2_Stress ==
    (\A t \in Threads : pc[t] = "idle") =>
        \A i \in Registered : logCalls[i] = Owed(i)

(* C2 witness: two threads have emitted MaxPerThread records each against  *)
(* two registered sinks, and a sink enabled for all of them has had        *)
(* 2 * MaxPerThread log calls.                                             *)
C2_Witness ==
    /\ \A t \in Threads : pc[t] = "idle" /\ Sent(t) = MaxPerThread
    /\ Cardinality(Registered) = 2
    /\ \E i \in Registered :
          /\ \A L \in EmitLevels : enabled(i, L)
          /\ logCalls[i] = 2 * MaxPerThread
(* C3: filter gating. A record is discarded exactly when its level is more *)
(* verbose than the level that gated emits when it was emitted; a          *)
(* discarded record has had enabled and log called on no sink, whatever    *)
(* the registered sinks' own enabled answers, and stays so whatever is     *)
(* called later (a later, more verbose set_max_level included); a record   *)
(* that passed has had enabled called on every registered sink and log on  *)
(* every enabled one; and no sink ever has more log calls than records     *)
(* that passed the filter and that it is enabled for.                      *)
C3_FilterGating ==
    /\ \A t \in Threads :
          /\ gate[t] \in {"pass", "discard"} =>
                (gate[t] = "discard" <=> lvl[t] > seen[t])
          /\ gate[t] = "discard" => asked[t] = {} /\ delivered[t] = <<>>
          /\ (gate[t] = "pass" /\ pc[t] = "idle") =>
                /\ asked[t] = snap[t]
                /\ \A i \in snap[t] : delivered[t][i] = Due(i, lvl[t])
    /\ \A i \in Insts : logCalls[i] <= Owed(i)

(* C3 witness: a record was discarded under a filter of ERROR although a   *)
(* registered sink is enabled for its level, the filter has since been     *)
(* raised to TRACE, and the sink has had no log call.                      *)
C3_Witness ==
    /\ pc["t1"] = "idle" /\ gate["t1"] = "discard"
    /\ seen["t1"] = ERROR /\ lvl["t1"] = INFO
    /\ Filter = TRACE /\ installed # 0
    /\ \E i \in Registered : enabled(i, INFO) /\ logCalls[i] = 0
(* A step in which thread t's shutdown call returns.                       *)
ShutdownReturns(t) == pc[t] \in {"clear", "off"} /\ pc'[t] = "idle"

(* What a returning shutdown call has done, its order apart: the flush     *)
(* loop ran over the sinks registered then and called flush once on each   *)
(* (and no sink has been flushed twice), the registry is empty and the     *)
(* severity filter is OFF.                                                 *)
Drained(t) ==
    /\ \A i \in snap'[t] : delivered'[t][i] = 1 /\ flushCalls'[i] = 1
    /\ Registered' = {}
    /\ Filter' = OFF

(* C4 as stated: a shutdown call on the running facade flushes every       *)
(* registered sink once, then empties the registry, then forces the filter *)
(* to OFF, in that order, and returns with the registry empty and the      *)
(* filter OFF.                                                             *)
C4_AsStated ==
    [][\A t \in Threads :
          /\ pc'[t] = "flushing" => snap'[t] = Registered'
          /\ ShutdownReturns(t) =>
                Drained(t) /\ order'[t] = <<"flush", "clear", "off">>]_vars

(* C4 amended: the same, but the order is flush, clear, OFF in the tracing *)
(* facade (common) and OFF, flush, clear in the log facade (core).         *)
C4_ShutdownDrains ==
    [][\A t \in Threads :
          /\ pc'[t] = "flushing" => snap'[t] = Registered'
          /\ ShutdownReturns(t) =>
                /\ Drained(t)
                /\ order'[t] = IF variant = "common"
                               THEN <<"flush", "clear", "off">>
                               ELSE <<"off", "flush", "clear">>]_vars

(* C4 witness: a shutdown call has returned after flushing two registered  *)
(* sinks once each; the registry is empty and the filter OFF.              *)
C4_Witness ==
    /\ pc["t1"] = "idle" /\ Len(order["t1"]) = 3
    /\ Cardinality(snap["t1"]) = 2
    /\ \A i \in snap["t1"] : delivered["t1"][i] = 1 /\ flushCalls[i] = 1
    /\ Registered = {} /\ Filter = OFF /\ shut
(* C5 as stated: once a shutdown call has returned, no later emit calls    *)
(* log on any sink, whatever facade calls follow the shutdown.             *)
C5_AsStated ==
    [][shut => \A i \in Insts : logCalls'[i] = logCalls[i]]_vars

(* C6 as stated: in every state after a shutdown call has returned the     *)
(* severity filter is OFF and the registry is empty.                       *)
C6_AsStated == shut => (Filter = OFF /\ Registered = {})

(* A step of a startup call of thread t, the step in which it returns, and *)
(* whether the call is one made after a startup has succeeded.             *)
StartupPcs == {"set_global_default", "set_logger", "set_level"}
InStartup(t) == pc[t] \in StartupPcs \/ pc'[t] \in StartupPcs
StartupReturns(t) == pc[t] \in StartupPcs /\ pc'[t] = "idle"
LaterStartup(t) == installed # 0 /\ pc[t] # "set_level" /\ pc'[t] # "set_level"

(* C7: double startup. A startup call made while nothing is installed      *)
(* returns Ok with the facade installed and the filter at the level it was *)
(* given; every step of a startup call made after that leaves the filter,  *)
(* the registry, the LOGGER, its handle and the installed default as they  *)
(* were, and the call returns AlreadyInitialized, whether or not a         *)
(* shutdown came in between.                                               *)
C7_DoubleStartup ==
    [][\A t \in Threads :
          InStartup(t) =>
             IF LaterStartup(t)
             THEN /\ Filter' = Filter
                  /\ sinks' = sinks
                  /\ <<LOGGER, reload_handle, installed, shut>>'
                        = <<LOGGER, reload_handle, installed, shut>>
                  /\ StartupReturns(t) => ret'[t] = "AlreadyInitialized"
             ELSE StartupReturns(t) =>
                     /\ ret'[t] = "Ok"
                     /\ installed = 0 \/ pc[t] = "set_level"
                     /\ installed' # 0
                     /\ Filter' = op[t][2]]_vars

(* C7 witness: on a running facade with a registered sink, a second        *)
(* startup call given another level than the filter's has returned         *)
(* AlreadyInitialized.                                                     *)
C7_Witness ==
    /\ pc["t1"] = "idle"
    /\ op["t1"][1] = "startup" /\ ret["t1"] = "AlreadyInitialized"
    /\ op["t1"][2] # Filter /\ Filter # OFF
    /\ Registered # {}
(* A step in which an add_sink call boxes a new instance.                  *)
Adds == Len(insts') = Len(insts) + 1
(* Instance i has been followed by a registration of the same kind.        *)
Superseded(i) == \E j \in Insts : j > i /\ insts[j].kind = insts[i].kind
(* The emit of thread t that passed the filter has returned: every sink    *)
(* its loop found registered has had its due.                              *)
Served(t) ==
    (pc[t] = "idle" /\ gate[t] = "pass") =>
        \A i \in snap[t] : delivered[t][i] = Due(i, lvl[t])

(* C8: replacement. The registry holds at most one entry per kind, the     *)
(* entry of a kind being the instance registered last under it; an         *)
(* add_sink puts the new instance under its kind, in place of the entry    *)
(* the kind had, and leaves the other kinds' entries alone; an instance    *)
(* that was replaced has no log call from then on, while an emit calls log *)
(* exactly once on each enabled instance it finds registered.              *)
C8_Replacement ==
    /\ [](/\ \A k \in Kinds :
                sinks[k] # 0 =>
                   /\ sinks[k] \in Insts /\ insts[sinks[k]].kind = k
                   /\ \A j \in Insts : insts[j].kind = k => j <= sinks[k]
          /\ \A t \in Threads :
                /\ Served(t)
                /\ pc[t] = "dispatch" => snap[t] = Registered)
    /\ [][/\ Adds =>
                sinks' = [sinks EXCEPT ![insts'[Len(insts')].kind] = Len(insts')]
          /\ \A i \in Insts : Superseded(i) => logCalls'[i] = logCalls[i]]_vars

(* C8 witness: after two registrations of kind A and one of kind B an emit *)
(* has called log once on the second instance of A and on the instance of  *)
(* B, and never on the first instance of A.                                *)
C8_Witness ==
    /\ pc["t1"] = "idle" /\ gate["t1"] = "pass"
    /\ \E i, j, b \in Insts :
          /\ i < j /\ insts[i].kind = "A" /\ insts[j].kind = "A" /\ insts[b].kind = "B"
          /\ snap["t1"] = {j, b} /\ Registered = {j, b}
          /\ delivered["t1"][j] = 1 /\ delivered["t1"][b] = 1
          /\ enabled(i, lvl["t1"]) /\ logCalls[i] = 0

(* A step in which thread t calls remove_sink.                             *)
Removes(t) == pc[t] = "idle" /\ left' = left - 1 /\ op'[t][1] = "remove_sink"

(* C9: removal. A removed instance is not registered and no dispatch loop  *)
(* iterates it, so that neither enabled nor log is called on it again; a   *)
(* remove_sink call changes the registry in the entry of its kind at most, *)
(* emptying it (not at all when the kind is not registered); and an        *)
(* add_sink of the kind afterwards registers a new instance, not a removed *)
(* one, which has its due of every record emitted from then on.            *)
C9_Removal ==
    /\ [](/\ Registered \cap removed = {}
          /\ \A t \in Threads :
                /\ pc[t] = "dispatch" =>
                      /\ snap[t] = Registered
                      /\ asked[t] \subseteq snap[t]
                      /\ snap[t] \cap removed = {}
                /\ Served(t))
    /\ [][/\ \A i \in removed : logCalls'[i] = logCalls[i]
          /\ \A t \in Threads :
                (Removes(t) /\ LOGGER) =>
                   /\ sinks' = [sinks EXCEPT ![op'[t][2]] = 0]
                   /\ removed' = removed \cup ({sinks[op'[t][2]]} \ {0})
          /\ Adds => sinks'[insts'[Len(insts')].kind] \notin removed']_vars

(* C9 witness: an instance of kind A was removed, a new instance of kind A *)
(* was registered, and an emit made after that has called log on the new   *)
(* instance and not on the removed one.                                    *)
C9_Witness ==
    /\ pc["t1"] = "idle" /\ gate["t1"] = "pass"
    /\ \E i \in removed, j \in Registered :
          /\ insts[i].kind = "A" /\ insts[j].kind = "A"
          /\ enabled(i, lvl["t1"]) /\ logCalls[i] = 0
          /\ j \in snap["t1"] /\ delivered["t1"][j] = 1

(* C10 as stated: sink fault isolation. When a sink panics in log the      *)
(* other registered sinks still have their due of the record, when a sink  *)
(* panics in flush the others are still flushed and the registry is        *)
(* emptied, and the facade's lock stays usable for later calls.            *)
C10_AsStated ==
    /\ ~poisoned
    /\ \A t \in Threads :
          /\ (pc[t] = "idle" /\ gate[t] = "pass") =>
                \A i \in snap[t] :
                   insts[i].fails # "log" => delivered[t][i] = Due(i, lvl[t])
          /\ (pc[t] = "idle" /\ op[t] = <<"shutdown">> /\ snap[t] # {}) =>
                /\ \A i \in snap[t] : insts[i].fails # "flush" => delivered[t][i] = 1
                /\ Registered = {}

(* A step in which thread t, between calls, makes the call named c.        *)
Calls(t, c) == left' = left - 1 /\ caller' = t /\ op'[t][1] = c

(* C11 as stated: while the facade is Uninitialized (no startup call has   *)
(* been made), add_sink, remove_sink, set_max_level and emit call no sink  *)
(* and change nothing: not the LOGGER, the registry, the installed default *)
(* nor the severity filter; and the first startup(L) that succeeds returns *)
(* with the registry empty and the filter at L.                            *)
C11_AsStated ==
    [][\A t \in Threads :
          /\ (/\ ~LOGGER
              /\ \E c \in {"add_sink", "remove_sink", "set_max_level", "emit"} :
                    Calls(t, c)) =>
                /\ shared' = shared
                /\ Filter' = Filter
                /\ logCalls' = logCalls /\ flushCalls' = flushCalls
                /\ asked'[t] = {} /\ pc'[t] = "idle"
          /\ (StartupReturns(t) /\ ret'[t] = "Ok") =>
                Registered' = {} /\ Filter' = op[t][2]]_vars

(* The shutdown call of thread t is under way.                             *)
ShutdownPcs == {"flush", "flushing", "clear", "off"}

(* C12 as stated: a shutdown call made while the facade is Uninitialized   *)
(* or already ShutDown calls flush on no sink and leaves the LOGGER, the   *)
(* severity filter and the registry unchanged, in every step it takes.     *)
C12_AsStated ==
    [][\A t \in Threads :
          (/\ ~LOGGER \/ shut
           /\ Calls(t, "shutdown") \/ pc[t] \in ShutdownPcs) =>
             /\ flushCalls' = flushCalls
             /\ sinks' = sinks
             /\ Filter' = Filter
             /\ LOGGER' = LOGGER /\ shut' = shut]_vars

(* The facade is Running: a startup call has returned Ok and no shutdown   *)
(* call has been made.                                                     *)
Running ==
    /\ installed # 0
    /\ ~shut
    /\ \A u \in Threads : pc[u] \notin ShutdownPcs \cup {"set_level", "deadlock"}

(* C13 as stated: set_max_level visibility. On the Running facade the step *)
(* in which a set_max_level(L) call returns leaves L as the level that     *)
(* gates emits, for every thread, and no step other than one of a          *)
(* set_max_level or of a shutdown call changes that level afterwards.      *)
C13_AsStated ==
    [][/\ \A t \in Threads :
             (Running /\ Calls(t, "set_max_level") /\ ret'[t] = "unit") =>
                Gate' = op'[t][2]
       /\ (Running /\ Running' /\ ~\E t \in Threads : Calls(t, "set_max_level")) =>
             Gate' = Gate]_vars

(* The positions at which a thread holds the facade's lock across steps:   *)
(* inside the dispatch loop, inside the flush loop, or stuck in the second *)
(* lock of a failed set_max_level.                                         *)
Inside(t) == pc[t] \in {"dispatch", "flushing", "deadlock"}

(* C14: mutual exclusion on the registry. At most one thread is inside a   *)
(* dispatch or flush loop, and it is the owner of the lock; while a thread *)
(* is inside a loop the registry is the one its loop started with; a step  *)
(* that changes the registry (add_sink, remove_sink, clear) is taken while *)
(* no thread is inside a loop; and a step that calls log or flush on a     *)
(* sink is taken by the one thread inside a loop, on one sink.             *)
C14_MutualExclusion ==
    /\ [](/\ \A t \in Threads : Inside(t) <=> mutex = t
          /\ \A t, u \in Threads : (Inside(t) /\ Inside(u)) => t = u
          /\ \A t \in Threads :
                pc[t] \in {"dispatch", "flushing"} => snap[t] = Registered)
    /\ [][/\ sinks' # sinks =>
                /\ mutex = "free" /\ mutex' = "free"
                /\ \A t \in Threads : ~Inside(t)
          /\ (logCalls' # logCalls \/ flushCalls' # flushCalls) =>
                /\ Len(insts') = Len(insts) =>
                      /\ \E t \in Threads : mutex = t /\ mutex' = t
                      /\ Cardinality({i \in Insts :
                            <<logCalls[i], flushCalls[i]>>
                               # <<logCalls'[i], flushCalls'[i]>>}) = 1
                /\ Len(insts') # Len(insts) => mutex = "free"]_vars

(* C14 witness: one thread is inside the dispatch loop and has called log  *)
(* on a registered sink, still holding the lock, while the other thread    *)
(* has emitted a record that passed the filter and waits for the lock.     *)
C14_Witness ==
    \E t, u \in Threads :
        /\ pc[t] = "dispatch" /\ mutex = t
        /\ \E i \in snap[t] : delivered[t][i] = 1
        /\ pc[u] = "log" /\ gate[u] = "pass"

(* A step in which thread t emits a record that goes on to the filter      *)
(* check of Logger::log or to its loop.                                    *)
EmitStarts(t) == pc[t] = "idle" /\ pc'[t] \in {"enabled", "log"}

(* C15: per-thread ordering. A thread calls log for the record it emitted  *)
(* last only, once per sink, and it emits its next record only when every  *)
(* log call of the previous one is complete; so on every sink the log call *)
(* for r1 is over before the one for r2 starts, whatever the other thread  *)
(* emits in between.                                                       *)
C15_PerThreadOrder ==
    [][\A t \in Threads :
          /\ (EmitStarts(t) /\ gate[t] = "pass") =>
                /\ DOMAIN delivered[t] = snap[t]
                /\ \A i \in snap[t] : delivered[t][i] = Due(i, lvl[t])
          /\ \A i \in Insts :
                (logCalls'[i] # logCalls[i] /\ mutex = t) =>
                   /\ pc[t] = "dispatch" /\ gate[t] = "pass"
                   /\ sent'[t] = sent[t] /\ lvl'[t] = lvl[t]
                   /\ delivered[t][i] = 0 /\ delivered'[t][i] = 1
          /\ sent'[t] # sent[t] =>
                /\ Sent(t)' = Sent(t) + 1
                /\ pc[t] \in {"idle", "enabled"} /\ pc'[t] = "log"]_vars

(* C15 witness: a thread has emitted two records and a sink enabled for    *)
(* every level has had both, while the other thread, which has emitted a   *)
(* record too, is inside its dispatch loop.                                *)
C15_Witness ==
    \E t, u \in Threads :
        /\ t # u
        /\ pc[t] = "idle" /\ gate[t] = "pass" /\ Sent(t) = 2
        /\ pc[u] = "dispatch" /\ Sent(u) >= 1
        /\ \E i \in snap[t] :
              /\ \A L \in EmitLevels : enabled(i, L)
              /\ delivered[t][i] = 1 /\ logCalls[i] >= 2

(* C17 as stated: shutdown is atomic with respect to concurrent emit and   *)
(* add_sink. No sink has log called after a shutdown call has flushed it,  *)
(* and every sink a shutdown call takes out of the registry was flushed by *)
(* that call.                                                              *)
C17_AsStated ==
    [][/\ \A i \in Insts :
             logCalls'[i] # logCalls[i] =>
                ~\E t \in Threads :
                    /\ pc[t] \in {"flushing", "clear", "off"}
                    /\ i \in snap[t] /\ delivered[t][i] = 1
       /\ \A t \in Threads :
             (pc[t] = "clear" /\ pc'[t] # "clear") =>
                \A i \in Registered : i \in snap[t] /\ delivered[t][i] = 1]_vars

(* C18 as stated: deadlock freedom of set_max_level. No set_max_level call *)
(* (that of shutdown included) dispatches its error record through         *)
(* Logger::log while it holds the facade's lock: no thread is ever stuck   *)
(* in, or thrown out of, a second lock of the Mutex it holds.              *)
C18_AsStated ==
    \A t \in Threads :
        /\ pc[t] # "deadlock"
        /\ ~(/\ op[t][1] \in {"set_max_level", "shutdown"}
             /\ pc[t] = "idle" /\ ret[t] = "panic")

(* C19 as stated: concurrent startup. Of the startup calls that have       *)
(* returned at most one returned Ok, a call that found the facade          *)
(* installed returned AlreadyInitialized, and whenever the facade is       *)
(* installed the reload handle the Logger keeps is the handle of the       *)
(* filter of the installed subscriber.                                     *)
C19_AsStated ==
    /\ \A t, u \in Threads :
          (/\ t # u
           /\ pc[t] = "idle" /\ op[t][1] = "startup"
           /\ pc[u] = "idle" /\ op[u][1] = "startup") =>
             ~(ret[t] = "Ok" /\ ret[u] = "Ok")
    /\ (variant = "common" /\ installed # 0) => reload_handle = installed

(* The text a field's value is shown as, and its name=value token.         *)
Shown(v) == IF v.via = "debug" THEN Debug(v) ELSE Display(v)
Token(f) == <<f.name, "=">> \o Shown(f.value)

IsMessage(f) == f.name = "message"
NotMessage(f) == f.name # "message"

(* The texts of a list of fields one after the other, and their tokens     *)
(* with one space between each two.                                        *)
RECURSIVE Concat(_)
Concat(fs) == IF fs = <<>> THEN <<>> ELSE Shown(Head(fs).value) \o Concat(Tail(fs))
RECURSIVE Join(_)
Join(fs) ==
    IF Len(fs) = 1
    THEN Token(fs[1])
    ELSE Token(Head(fs)) \o <<" ">> \o Join(Tail(fs))

(* The text sub occurs in the text.                                        *)
Contains(text, sub) ==
    \E i \in 0..(Len(text) - Len(sub)) : SubSeq(text, i + 1, i + Len(sub)) = sub

(* The record of the event has been built.                                 *)
Built == step \in {"log", "sink", "done"}

(* C16: record formatting. The message text is the text of the fields      *)
(* named message, and no such field gives a token of args; args is None    *)
(* exactly when the event has no other field, else it is the name=value    *)
(* tokens of the other fields in declaration order with one space between  *)
(* each two, and neither starts nor ends with a space; the event with      *)
(* message "Test message" and the field milk = 3 gives args "milk=3".      *)
C16_RecordFormatting ==
    Built =>
        LET others == SelectSeq(event.fields, NotMessage)
        IN  /\ record.msg = Concat(SelectSeq(event.fields, IsMessage))
            /\ record.args = None <=> others = <<>>
            /\ others # <<>> =>
                  /\ record.args = Some(Join(others))
                  /\ Head(record.args[1]) # " "
                  /\ record.args[1][Len(record.args[1])] # " "
                  /\ ~Contains(record.args[1], <<"message", "=">>)
            /\ (\E v, w \in Values :
                  /\ v.ty = "fmt" /\ w.ty = "i64"
                  /\ event.fields = <<[name |-> "message", value |-> v],
                                      [name |-> "milk", value |-> w]>>) =>
                  /\ record.msg = <<"Test", " ", "message">>
                  /\ record.args = Some(<<"milk", "=", "3">>)

(* C16 witness: an event with two fields of different names, neither       *)
(* named message, has gone through on_event and its args is the two        *)
(* tokens with one space between them.                                     *)
C16_Witness ==
    /\ step = "done"
    /\ Len(event.fields) = 2
    /\ NotMessage(event.fields[1]) /\ NotMessage(event.fields[2])
    /\ event.fields[1].name # event.fields[2].name
    /\ record.args = Some(Token(event.fields[1]) \o <<" ">> \o Token(event.fields[2]))

(* C20 as stated: DebugConsoleSink output. The sink takes the record       *)
(* exactly when its max level is not OFF and the record's level is at most *)
(* as verbose; the text it writes contains the args string whenever args   *)
(* is present, and file:line when both are present, unknown:unknown        *)
(* otherwise.                                                              *)
C20_AsStated ==
    /\ step = "done" =>
          (written # "nothing" <=>
              (event.max # OFF /\ record.level <= event.max))
    /\ written # "nothing" =>
          /\ record.args # None => Contains(written, record.args[1])
          /\ IF record.file # None /\ record.line # None
             THEN Contains(written, record.file[1] \o <<":">> \o Digits(record.line[1]))
             ELSE Contains(written, <<"unknown", ":", "unknown">>)
====
